---- MODULE Spec2Model ----
(***************************************************************************)
(* Model of the libmagic binding in src/src/lib.rs: the CookieFlags        *)
(* bitmask, the Cookie handle (open / load / query / set_flags / drop) and *)
(* the translation of the native failure convention into MagicError.       *)
(*                                                                         *)
(* Strings are sequences of numbers: a Rust &str / String is a sequence of *)
(* code points, a C string is a sequence of bytes without its terminator.  *)
(* The native engine (libmagic, reached through the ffi calls) is the     *)
(* environment: its outcomes are chosen nondeterministically within what   *)
(* the crate's documentation of the engine allows.                         *)
(***************************************************************************)
EXTENDS Integers, Sequences, FiniteSets, TLC

(* ------------------------------ bounds --------------------------------- *)
MaxHandles == 2      \* native engine instances magic_open may allocate
MaxNames   == 2      \* longest database list a caller passes
MaxResults == 1      \* result strings the caller keeps around

(* ------------------------- flags::CookieFlags -------------------------- *)
NONE              == 0
DEBUG             == 1
SYMLINK           == 2
COMPRESS          == 4
DEVICES           == 8
MIME_TYPE         == 16
CONTINUE          == 32
CHECK             == 64
PRESERVE_ATIME    == 128
RAW               == 256
ERROR             == 512
MIME_ENCODING     == 1024
APPLE             == 2048
EXTENSION         == 16777216
COMPRESS_TRANSP   == 33554432
NO_CHECK_COMPRESS == 4096
NO_CHECK_TAR      == 8192
NO_CHECK_SOFT     == 16384
NO_CHECK_APPTYPE  == 32768
NO_CHECK_ELF      == 65536
NO_CHECK_TEXT     == 131072
NO_CHECK_CDF      == 262144
NO_CHECK_TOKENS   == 1048576
NO_CHECK_ENCODING == 2097152
NO_CHECK_JSON     == 4194304

RECURSIVE BitOr(_, _)
\* CookieFlags `|` (bitflags BitOr): self.bits | other.bits
BitOr(a, b) ==
    IF a = 0 THEN b
    ELSE IF b = 0 THEN a
    ELSE (IF a % 2 = 1 \/ b % 2 = 1 THEN 1 ELSE 0) + 2 * BitOr(a \div 2, b \div 2)

RECURSIVE BitAnd(_, _)
\* self.bits & other.bits
BitAnd(a, b) ==
    IF a = 0 \/ b = 0 THEN 0
    ELSE (IF a % 2 = 1 /\ b % 2 = 1 THEN 1 ELSE 0) + 2 * BitAnd(a \div 2, b \div 2)

\* CookieFlags::contains: (self.bits & other.bits) == other.bits
contains(v, f) == BitAnd(v, f) = f

MIME == BitOr(MIME_TYPE, MIME_ENCODING)

NODESC == BitOr(EXTENSION, BitOr(MIME, APPLE))

NO_CHECK_BUILTIN_withSoft ==
    BitOr(NO_CHECK_COMPRESS, BitOr(NO_CHECK_TAR, BitOr(NO_CHECK_SOFT,
    BitOr(NO_CHECK_APPTYPE, BitOr(NO_CHECK_ELF, BitOr(NO_CHECK_TEXT,
    BitOr(NO_CHECK_CDF, BitOr(NO_CHECK_TOKENS, BitOr(NO_CHECK_ENCODING,
    NO_CHECK_JSON)))))))))

NO_CHECK_BUILTIN ==
    BitOr(NO_CHECK_COMPRESS, BitOr(NO_CHECK_TAR, BitOr(NO_CHECK_APPTYPE,
    BitOr(NO_CHECK_ELF, BitOr(NO_CHECK_TEXT, BitOr(NO_CHECK_CDF,
    BitOr(NO_CHECK_TOKENS, BitOr(NO_CHECK_ENCODING, NO_CHECK_JSON))))))))

\* impl Default for CookieFlags
default == NONE

(* ------------------------------ strings -------------------------------- *)
\* a null pointer; a non-null pointer is a one- or two-element sequence
NULL == <<>>

RECURSIVE Digits(_)
\* decimal rendering of a natural number ({} / {:?} of an integer)
Digits(n) == IF n < 10 THEN <<48 + n>> ELSE Digits(n \div 10) \o <<48 + (n % 10)>>

RECURSIVE DebugBytes(_)
\* {:?} of the elements of a Vec<u8>, separated by ", "
DebugBytes(bs) ==
    IF bs = <<>> THEN <<>>
    ELSE IF Len(bs) = 1 THEN Digits(bs[1])
    ELSE Digits(bs[1]) \o <<44, 32>> \o DebugBytes(Tail(bs))

\* index (from 0) of the first nul byte of s, or -1
NulPosition(s) ==
    IF \E i \in 1..Len(s) : s[i] = 0
    THEN (CHOOSE i \in 1..Len(s) : s[i] = 0 /\ \A j \in 1..(i - 1) : s[j] # 0) - 1
    ELSE -1

\* CString::new(s).map_err(|e| MagicError { desc: format!("{:?}", e) })
\* the error text is "NulError(<pos>, [<bytes>])"
\* a conversion that stops at the first nul instead of rejecting the string
CString_truncate(s) ==
    [ok |-> TRUE,
     val |-> IF NulPosition(s) >= 0 THEN SubSeq(s, 1, NulPosition(s)) ELSE s,
     desc |-> <<>>]

CString_new(s) ==
    IF NulPosition(s) >= 0
    THEN [ok |-> FALSE, val |-> <<>>,
          desc |-> <<78, 117, 108, 69, 114, 114, 111, 114, 40>>
                   \o Digits(NulPosition(s)) \o <<44, 32, 91>>
                   \o DebugBytes(s) \o <<93, 41>>]
    ELSE [ok |-> TRUE, val |-> s, desc |-> <<>>]

RECURSIVE join(_, _)
\* [&str]::join(sep): the elements in order, sep between neighbours
join(filenames, sep) ==
    IF filenames = <<>> THEN <<>>
    ELSE IF Len(filenames) = 1 THEN filenames[1]
    ELSE join(SubSeq(filenames, 1, Len(filenames) - 1), sep)
         \o sep \o filenames[Len(filenames)]

\* CStr::to_string_lossy over ASCII bytes and the byte 0xFF, which is never
\* part of a UTF-8 sequence and decodes to U+FFFD each time it occurs
to_string_lossy(bs) == [i \in 1..Len(bs) |-> IF bs[i] < 128 THEN bs[i] ELSE 65533]

\* a Rust String that owns its characters
Owned(chars) == [owned |-> TRUE, data |-> chars, ptr |-> NULL]

\* the bytes a native char pointer <<handle, buffer>> points to
CStr(eng, x) == eng[x[1]][x[2]][1]

\* a String that merely refers to the native buffer
from_c_str_view(eng, x) == [owned |-> FALSE, data |-> <<>>, ptr |-> x]

\* from_c_str_unsafe!: CStr::from_ptr(x).to_string_lossy().into_owned()
from_c_str_unsafe(eng, x) == Owned(to_string_lossy(CStr(eng, x)))

\* MagicError / Result values
Err(d)   == [ok |-> FALSE, val |-> <<>>, desc |-> d]
Ok(v)    == [ok |-> TRUE, val |-> v, desc |-> Owned(<<>>)]

\* "unknown error"
UnknownError == <<117, 110, 107, 110, 111, 119, 110, 32, 101, 114, 114, 111, 114>>

(* --------------------------- caller inputs ------------------------------ *)
Handles == 1..MaxHandles

\* flags values a caller passes to new / new_from_buffers / set_flags
FlagInputs == {NONE, MIME_TYPE, MIME, ERROR}

\* database names: "a", "d", and "b\0c" with an embedded nul
Names == {<<97>>, <<100>>, <<98, 0, 99>>}

\* database lists of at most MaxNames names
NameLists == UNION {[1..n -> Names] : n \in 0..MaxNames}

\* the database lists of at most one name
ShortLists == {l \in NameLists : Len(l) <= 1}

\* the flags the database operations are exercised under
PlainFlags == {NONE}

\* paths given to file(): "p", and "q\0r" with an embedded nul
Paths == {<<112>>, <<113, 0, 114>>}

\* byte buffers given to buffer() and, as compiled databases, to
\* new_from_buffers()
Buffers == {<<35, 33>>}
BufferLists == {<<>>, <<<<35, 33>>>>}

\* process error codes magic_open may leave behind: ENOMEM
Errnos == {12}

(* --------------------------- native engine ------------------------------ *)
\* result texts of a query, by the MIME_TYPE / MIME_ENCODING bits in force
Describe(flags) ==
    IF contains(flags, MIME_TYPE) /\ contains(flags, MIME_ENCODING)
    THEN <<105, 109, 97, 103, 101, 47, 112, 110, 103, 59, 32, 99, 104, 97,
           114, 115, 101, 116, 61, 98, 105, 110, 97, 114, 121>>
    ELSE IF contains(flags, MIME_TYPE)
    THEN <<105, 109, 97, 103, 101, 47, 112, 110, 103>>
    ELSE IF contains(flags, MIME_ENCODING)
    THEN <<98, 105, 110, 97, 114, 121>>
    ELSE <<80, 78, 71>>

\* "cannot stat": the error text of an operating system failure
CannotStat == <<99, 97, 110, 110, 111, 116, 32, 115, 116, 97, 116>>
\* "cannot open": the same failure printed in the magic buffer
CannotOpen == <<99, 97, 110, 110, 111, 116, 32, 111, 112, 101, 110>>
\* an engine error text holding a byte that is not UTF-8
FailText == <<101, 255>>

\* what a query may meet: a match, an operating system failure, an engine
\* failure with error text, an engine failure without
FileOutcomes == {"match", "oserr", "fail", "failquiet"}
BufferOutcomes == {"match", "fail", "failquiet"}

\* how a status call may end: 0, or -1 with or without an error text left
StatusOutcomes ==
    {[rv |-> 0, et |-> NULL], [rv |-> -1, et |-> NULL], [rv |-> -1, et |-> <<FailText>>]}

\* how a construction may go: magic_open returns null and sets the process
\* error code, or returns an instance and the load ends as a status call does
NewOutcomes ==
    {[openOk |-> FALSE, e |-> e, rv |-> 0, et |-> NULL] : e \in Errnos}
    \cup {[openOk |-> TRUE, e |-> 0, rv |-> s.rv, et |-> s.et] : s \in StatusOutcomes}

Unallocated == [st |-> "none", flags |-> 0, err |-> NULL, res |-> NULL]

\* magic_open(flags): a fresh instance with these flags
magic_open(eng, h, flags) ==
    [eng EXCEPT ![h] = [st |-> "open", flags |-> flags, err |-> NULL, res |-> NULL]]

\* magic_close(cookie): the instance and its buffers are gone
magic_close(eng, h) ==
    [eng EXCEPT ![h] = [st |-> "closed", flags |-> 0, err |-> NULL, res |-> NULL]]

\* magic_setflags(cookie, flags): replaces the flags unless it fails
magic_setflags(eng, h, flags, ok) ==
    IF ok THEN [eng EXCEPT ![h].flags = flags] ELSE eng

\* magic_check / magic_compile / magic_list / magic_load /
\* magic_load_buffers: status rv, error text et left on failure
magic_status(eng, h, rv, et) ==
    [eng EXCEPT ![h].err = IF rv = 0 THEN NULL ELSE et]

\* magic_file / magic_buffer: the result buffer and the error text are
\* rewritten by every query; with ERROR an operating system failure is a
\* real error, without it the failure is printed in the magic buffer
magic_query(eng, h, outcome) ==
    LET fl == eng[h].flags IN
    IF outcome = "match"
    THEN [eng EXCEPT ![h].res = <<Describe(fl)>>, ![h].err = NULL]
    ELSE IF outcome = "oserr"
    THEN IF contains(fl, ERROR)
         THEN [eng EXCEPT ![h].res = NULL, ![h].err = <<CannotStat>>]
         ELSE [eng EXCEPT ![h].res = <<CannotOpen>>, ![h].err = NULL]
    ELSE IF outcome = "fail"
    THEN [eng EXCEPT ![h].res = NULL, ![h].err = <<FailText>>]
    ELSE [eng EXCEPT ![h].res = NULL, ![h].err = NULL]

\* the pointer a query returns
query_result(eng, h) == IF eng[h].res = NULL THEN NULL ELSE <<h, "res">>

\* magic_error(cookie)
magic_error(eng, h) == IF eng[h].err = NULL THEN NULL ELSE <<h, "err">>

\* record of one native call: its argument, whether its handle was an
\* open instance, and the flags in force
Call(fn, eng, h, arg) ==
    [fn |-> fn, h |-> h, arg |-> arg,
     live |-> eng[h].st = "open", flags |-> eng[h].flags]

OpenCall(flagbits) ==
    [fn |-> "magic_open", h |-> 0, arg |-> <<flagbits>>,
     live |-> TRUE, flags |-> flagbits]

(* ------------------------------- Cookie --------------------------------- *)
\* every method yields its return value, the engine state it leaves and the
\* native calls it made, in order

\* Display of the process error code: ENOMEM, "Cannot allocate memory"
StrError(e) ==
    <<67, 97, 110, 110, 111, 116, 32, 97, 108, 108, 111, 99, 97, 116, 101,
      32, 109, 101, 109, 111, 114, 121>>

\* impl Drop for Cookie
drop(eng, h) ==
    [ret |-> Ok(<<>>), eng |-> magic_close(eng, h),
     calls |-> <<Call("magic_close", eng, h, <<>>)>>]

\* Cookie::last_error: None is <<>>, Some(e) is <<e>>
last_error(eng, h) ==
    LET e == magic_error(eng, h) IN
    IF e = NULL THEN <<>> ELSE <<from_c_str_unsafe(eng, e)>>

\* a failure report that never consults the engine
magic_failure_fixed(eng, h) == Owned(UnknownError)

\* Cookie::magic_failure
magic_failure(eng, h) ==
    IF last_error(eng, h) # <<>> THEN last_error(eng, h)[1]
    ELSE Owned(UnknownError)

\* Cookie::file
file(eng, h, filename, outcome) ==
    LET f == CString_new(filename) IN
    IF ~f.ok THEN [ret |-> Err(Owned(f.desc)), eng |-> eng, calls |-> <<>>]
    ELSE LET eng1 == magic_query(eng, h, outcome)
             s    == query_result(eng1, h)
         IN IF s = NULL
            THEN [ret |-> Err(magic_failure(eng1, h)), eng |-> eng1,
                  calls |-> <<Call("magic_file", eng, h, <<f.val>>),
                              Call("magic_error", eng1, h, <<>>)>>]
            ELSE [ret |-> Ok(from_c_str_unsafe(eng1, s)), eng |-> eng1,
                  calls |-> <<Call("magic_file", eng, h, <<f.val>>)>>]

\* Cookie::buffer
buffer(eng, h, buf, outcome) ==
    LET eng1 == magic_query(eng, h, outcome)
        s    == query_result(eng1, h)
    IN IF s = NULL
       THEN [ret |-> Err(magic_failure(eng1, h)), eng |-> eng1,
             calls |-> <<Call("magic_buffer", eng, h, <<buf, Len(buf)>>),
                         Call("magic_error", eng1, h, <<>>)>>]
       ELSE [ret |-> Ok(from_c_str_unsafe(eng1, s)), eng |-> eng1,
             calls |-> <<Call("magic_buffer", eng, h, <<buf, Len(buf)>>)>>]

\* a set_flags that adds the new flags to those in force
set_flags_merge(eng, h, flags, ok) ==
    [ret |-> IF ok THEN Ok(<<>>) ELSE Err(Owned(<<>>)),
     eng |-> magic_setflags(eng, h, BitOr(eng[h].flags, flags), ok),
     calls |-> <<Call("magic_setflags", eng, h, <<BitOr(eng[h].flags, flags)>>)>>]

\* Cookie::set_flags: the boolean is carried in ret.ok
set_flags(eng, h, flags, ok) ==
    [ret |-> IF ok THEN Ok(<<>>) ELSE Err(Owned(<<>>)),
     eng |-> magic_setflags(eng, h, flags, ok),
     calls |-> <<Call("magic_setflags", eng, h, <<flags>>)>>]

\* the shape check, compile, list and load share after their argument is
\* built: status 0 is Ok(()), anything else Err(self.magic_failure())
status_call(fn, eng, h, dbs, rv, et) ==
    LET eng1 == magic_status(eng, h, rv, et) IN
    IF rv = 0
    THEN [ret |-> Ok(<<>>), eng |-> eng1, calls |-> <<Call(fn, eng, h, dbs)>>]
    ELSE [ret |-> Err(magic_failure(eng1, h)), eng |-> eng1,
          calls |-> <<Call(fn, eng, h, dbs), Call("magic_error", eng1, h, <<>>)>>]

\* Cookie::check
check(eng, h, filenames, rv, et) ==
    LET cstring == CString_new(join(filenames, <<58>>)) IN
    IF Len(filenames) = 0 THEN status_call("magic_check", eng, h, NULL, rv, et)
    ELSE IF ~cstring.ok
    THEN [ret |-> Err(Owned(cstring.desc)), eng |-> eng, calls |-> <<>>]
    ELSE status_call("magic_check", eng, h, <<cstring.val>>, rv, et)

\* Cookie::compile
compile(eng, h, filenames, rv, et) ==
    LET cstring == CString_new(join(filenames, <<58>>)) IN
    IF Len(filenames) = 0 THEN status_call("magic_compile", eng, h, NULL, rv, et)
    ELSE IF ~cstring.ok
    THEN [ret |-> Err(Owned(cstring.desc)), eng |-> eng, calls |-> <<>>]
    ELSE status_call("magic_compile", eng, h, <<cstring.val>>, rv, et)

\* a list that passes an empty string for an empty database list
list_emptyString(eng, h, filenames, rv, et) ==
    LET cstring == CString_new(join(filenames, <<58>>)) IN
    IF ~cstring.ok
    THEN [ret |-> Err(Owned(cstring.desc)), eng |-> eng, calls |-> <<>>]
    ELSE status_call("magic_list", eng, h, <<cstring.val>>, rv, et)

\* Cookie::list
list(eng, h, filenames, rv, et) ==
    LET cstring == CString_new(join(filenames, <<58>>)) IN
    IF Len(filenames) = 0 THEN status_call("magic_list", eng, h, NULL, rv, et)
    ELSE IF ~cstring.ok
    THEN [ret |-> Err(Owned(cstring.desc)), eng |-> eng, calls |-> <<>>]
    ELSE status_call("magic_list", eng, h, <<cstring.val>>, rv, et)

\* Cookie::load
load(eng, h, filenames, rv, et) ==
    LET cstring == CString_new(join(filenames, <<58>>)) IN
    IF Len(filenames) = 0 THEN status_call("magic_load", eng, h, NULL, rv, et)
    ELSE IF ~cstring.ok
    THEN [ret |-> Err(Owned(cstring.desc)), eng |-> eng, calls |-> <<>>]
    ELSE status_call("magic_load", eng, h, <<cstring.val>>, rv, et)

\* Cookie::load_buffers: parallel pointer and size arrays and their length
load_buffers(eng, h, buffers, rv, et) ==
    status_call("magic_load_buffers", eng, h,
                <<buffers, [i \in 1..Len(buffers) |-> Len(buffers[i])], Len(buffers)>>,
                rv, et)

\* an open that passes the caller's flags as they are
open_noError(eng, h, flags, openOk, e) ==
    IF ~openOk
    THEN [ret |-> Err(Owned(StrError(e) \o <<32, 40>> \o Digits(e) \o <<41>>)),
          eng |-> eng, calls |-> <<OpenCall(flags)>>]
    ELSE [ret |-> Ok([cookie |-> h]), eng |-> magic_open(eng, h, flags),
          calls |-> <<OpenCall(flags)>>]

\* an open whose allocation error leaves out the error code
open_textOnly(eng, h, flags, openOk, e) ==
    LET bits == BitOr(flags, ERROR) IN
    IF ~openOk
    THEN [ret |-> Err(Owned(StrError(e))), eng |-> eng, calls |-> <<OpenCall(bits)>>]
    ELSE [ret |-> Ok([cookie |-> h]), eng |-> magic_open(eng, h, bits),
          calls |-> <<OpenCall(bits)>>]

\* Cookie::open: h is the instance magic_open returns when it succeeds
open(eng, h, flags, openOk, e) ==
    LET bits == BitOr(flags, ERROR) IN
    IF ~openOk
    THEN [ret |-> Err(Owned(StrError(e) \o <<32, 40>> \o Digits(e) \o <<41>>)),
          eng |-> eng, calls |-> <<OpenCall(bits)>>]
    ELSE [ret |-> Ok([cookie |-> h]), eng |-> magic_open(eng, h, bits),
          calls |-> <<OpenCall(bits)>>]

\* a constructor that hands the load error back without releasing the
\* instance it opened
new_leak(eng, h, flags, filenames, openOk, e, rv, et) ==
    LET o == open(eng, h, flags, openOk, e) IN
    IF ~o.ret.ok THEN o
    ELSE LET cookie == o.ret.val
             l == load(o.eng, cookie.cookie, filenames, rv, et)
         IN [ret |-> IF l.ret.ok THEN Ok(cookie) ELSE l.ret,
             eng |-> l.eng, calls |-> o.calls \o l.calls]

\* Cookie::new: cookie.load(filenames).map(|_| cookie); on Err the closure
\* is dropped unused and the Cookie it captured with it
new(eng, h, flags, filenames, openOk, e, rv, et) ==
    LET o == open(eng, h, flags, openOk, e) IN
    IF ~o.ret.ok THEN o
    ELSE LET cookie == o.ret.val
             l == load(o.eng, cookie.cookie, filenames, rv, et)
         IN IF l.ret.ok
            THEN [ret |-> Ok(cookie), eng |-> l.eng, calls |-> o.calls \o l.calls]
            ELSE [ret |-> l.ret, eng |-> drop(l.eng, cookie.cookie).eng,
                  calls |-> o.calls \o l.calls \o drop(l.eng, cookie.cookie).calls]

\* Cookie::new_from_buffers
new_from_buffers(eng, h, flags, buffers, openOk, e, rv, et) ==
    LET o == open(eng, h, flags, openOk, e) IN
    IF ~o.ret.ok THEN o
    ELSE LET cookie == o.ret.val
             l == load_buffers(o.eng, cookie.cookie, buffers, rv, et)
         IN IF l.ret.ok
            THEN [ret |-> Ok(cookie), eng |-> l.eng, calls |-> o.calls \o l.calls]
            ELSE [ret |-> l.ret, eng |-> drop(l.eng, cookie.cookie).eng,
                  calls |-> o.calls \o l.calls \o drop(l.eng, cookie.cookie).calls]

(* ------------------------------- state ---------------------------------- *)
\* The caller is a program with one Cookie variable: it constructs a Cookie,
\* uses it, lets it go out of scope, and constructs the next one.
VARIABLES
    fv,          \* a CookieFlags value under construction by the caller
    nextHandle,  \* the instance magic_open hands out next
    engine,      \* native engine instances: state, flags, error text, result buffer
    cookie,      \* the caller's Cookie variable: <<>> or <<[cookie |-> handle]>>
    closes,      \* number of magic_close calls per instance
    ctor,        \* flags given at construction, -1 after a set_flags call
    lastSet,     \* flags of the last set_flags that returned true, -1 if none
    results,     \* result strings the caller still holds
    lastOp       \* the last operation: arguments, return value, native calls

vars == <<fv, nextHandle, engine, cookie, closes, ctor, lastSet, results, lastOp>>

NoEnv == [none |-> TRUE]

NoOp == [op |-> "none", arg |-> <<>>, env |-> NoEnv, ret |-> Ok(<<>>), calls |-> <<>>]

Init ==
    /\ fv = default
    /\ nextHandle = 1
    /\ engine = [h \in Handles |-> Unallocated]
    /\ cookie = <<>>
    /\ closes = [h \in Handles |-> 0]
    /\ ctor = -1
    /\ lastSet = -1
    /\ results = <<>>
    /\ lastOp = NoOp

\* the characters of a String the caller holds
StrVal(s) ==
    IF s.owned THEN s.data
    ELSE IF engine[s.ptr[1]][s.ptr[2]] = NULL THEN <<-1>>
    ELSE to_string_lossy(CStr(engine, s.ptr))

CloseCount(calls, h) ==
    Cardinality({i \in 1..Len(calls) : calls[i].fn = "magic_close" /\ calls[i].h = h})

\* what every operation leaves behind
Done(op, arg, env, r) ==
    /\ engine' = r.eng
    /\ closes' = [h \in Handles |-> closes[h] + CloseCount(r.calls, h)]
    /\ lastOp' = [op |-> op, arg |-> arg, env |-> env,
                  ret |-> r.ret, calls |-> r.calls]

\* the caller keeps the String of an Ok while it has room for it
Keep(r) ==
    results' = IF r.ret.ok /\ Len(results) < MaxResults
               THEN Append(results, r.ret.val) ELSE results

\* the caller binds the Cookie of an Ok; an instance was allocated when
\* magic_open did not return null
Constructed(F, o, r) ==
    /\ nextHandle' = IF o.openOk THEN nextHandle + 1 ELSE nextHandle
    /\ cookie' = IF r.ret.ok THEN <<r.ret.val>> ELSE cookie
    /\ ctor' = IF r.ret.ok THEN F ELSE ctor
    /\ lastSet' = lastSet

New(F, filenames) ==
    /\ cookie = <<>>
    /\ nextHandle <= MaxHandles
    /\ \E o \in NewOutcomes :
         LET r == new(engine, nextHandle, F, filenames, o.openOk, o.e, o.rv, o.et) IN
         /\ Done("new", <<F, filenames>>, o, r)
         /\ Constructed(F, o, r)
    /\ UNCHANGED <<fv, results>>

NewFromBuffers(F, buffers) ==
    /\ cookie = <<>>
    /\ nextHandle <= MaxHandles
    /\ \E o \in NewOutcomes :
         LET r == new_from_buffers(engine, nextHandle, F, buffers, o.openOk, o.e, o.rv, o.et) IN
         /\ Done("new_from_buffers", <<F, buffers>>, o, r)
         /\ Constructed(F, o, r)
    /\ UNCHANGED <<fv, results>>

File(filename) ==
    /\ cookie # <<>>
    /\ \E outcome \in FileOutcomes :
         LET r == file(engine, cookie[1].cookie, filename, outcome) IN
         /\ Done("file", <<filename>>, [outcome |-> outcome], r)
         /\ Keep(r)
    /\ UNCHANGED <<fv, nextHandle, cookie, ctor, lastSet>>

Buffer(buf) ==
    /\ cookie # <<>>
    /\ \E outcome \in BufferOutcomes :
         LET r == buffer(engine, cookie[1].cookie, buf, outcome) IN
         /\ Done("buffer", <<buf>>, [outcome |-> outcome], r)
         /\ Keep(r)
    /\ UNCHANGED <<fv, nextHandle, cookie, ctor, lastSet>>

SetFlags(F) ==
    /\ cookie # <<>>
    /\ \E ok \in BOOLEAN :
         /\ Done("set_flags", <<F>>, [ok |-> ok],
                 set_flags(engine, cookie[1].cookie, F, ok))
         /\ lastSet' = IF ok THEN F ELSE lastSet
    /\ ctor' = -1
    /\ UNCHANGED <<fv, nextHandle, cookie, results>>

Check(filenames) ==
    /\ cookie # <<>>
    /\ \E s \in StatusOutcomes :
         Done("check", <<filenames>>, s,
              check(engine, cookie[1].cookie, filenames, s.rv, s.et))
    /\ UNCHANGED <<fv, nextHandle, cookie, ctor, lastSet, results>>

Compile(filenames) ==
    /\ cookie # <<>>
    /\ \E s \in StatusOutcomes :
         Done("compile", <<filenames>>, s,
              compile(engine, cookie[1].cookie, filenames, s.rv, s.et))
    /\ UNCHANGED <<fv, nextHandle, cookie, ctor, lastSet, results>>

List(filenames) ==
    /\ cookie # <<>>
    /\ \E s \in StatusOutcomes :
         Done("list", <<filenames>>, s,
              list(engine, cookie[1].cookie, filenames, s.rv, s.et))
    /\ UNCHANGED <<fv, nextHandle, cookie, ctor, lastSet, results>>

\* the Cookie goes out of scope
Drop ==
    /\ cookie # <<>>
    /\ Done("drop", <<>>, NoEnv, drop(engine, cookie[1].cookie))
    /\ cookie' = <<>>
    /\ ctor' = -1
    /\ lastSet' = -1
    /\ UNCHANGED <<fv, nextHandle, results>>

\* the caller lets go of the String it received last
DropResult ==
    /\ results # <<>>
    /\ results' = SubSeq(results, 1, Len(results) - 1)
    /\ UNCHANGED <<fv, nextHandle, engine, cookie, closes, ctor, lastSet, lastOp>>

\* every operation, databases named by short lists
Next ==
    \/ \E F \in FlagInputs, filenames \in ShortLists : New(F, filenames)
    \/ \E F \in FlagInputs, buffers \in BufferLists : NewFromBuffers(F, buffers)
    \/ \E filename \in Paths : File(filename)
    \/ \E buf \in Buffers : Buffer(buf)
    \/ \E F \in FlagInputs : SetFlags(F)
    \/ \E filenames \in ShortLists : Check(filenames)
    \/ \E filenames \in ShortLists : Compile(filenames)
    \/ \E filenames \in ShortLists : List(filenames)
    \/ Drop
    \/ DropResult

Spec == Init /\ [][Next]_vars

\* the operations that take caller strings, over every database list
NextDb ==
    \/ \E F \in PlainFlags, filenames \in NameLists : New(F, filenames)
    \/ \E filename \in Paths : File(filename)
    \/ \E filenames \in NameLists : Check(filenames)
    \/ \E filenames \in NameLists : Compile(filenames)
    \/ \E filenames \in NameLists : List(filenames)
    \/ Drop

SpecDb == Init /\ [][NextDb]_vars

(* ----------------------- composing flags values ------------------------- *)
\* the named constants a caller ORs together
FlagNames ==
    {MIME_TYPE, MIME_ENCODING, MIME, APPLE, EXTENSION, NODESC, NO_CHECK_SOFT,
     NO_CHECK_COMPRESS, NO_CHECK_JSON, NO_CHECK_BUILTIN}

\* fv | f
Union(f) ==
    /\ fv' = BitOr(fv, f)
    /\ UNCHANGED <<nextHandle, engine, cookie, closes, ctor, lastSet, results, lastOp>>

NextFlags == \E f \in FlagNames : Union(f)

SpecFlags == Init /\ [][NextFlags]_vars

(* ------------------------------ properties ------------------------------ *)
News == {"new", "new_from_buffers"}
Queries == {"file", "buffer"}
DbOps == {"check", "compile", "list"}

\* the instance the caller's Cookie holds
Held == cookie[1].cookie

\* bit b of v, and the set of bits of v
BitAt(v, b) == (v \div (2 ^ b)) % 2
BitsOf(v) == {b \in 0..30 : BitAt(v, b) = 1}

\* v is F with bit 9 (0x200) set and every other bit as in F
WithError(F, v) == \A b \in 0..30 : BitAt(v, b) = IF b = 9 THEN 1 ELSE BitAt(F, b)

HasNul(s) == \E i \in 1..Len(s) : s[i] = 0
AnyNul(l) == \E i \in 1..Len(l) : HasNul(l[i])

\* the error description expected for an engine error text pointer
FailureDesc(et) ==
    IF et = NULL
    THEN <<117, 110, 107, 110, 111, 119, 110, 32, 101, 114, 114, 111, 114>>
    ELSE [i \in 1..Len(et[1]) |-> IF et[1][i] > 127 THEN 65533 ELSE et[1][i]]

\* C1: every instance magic_open allocated has been closed exactly once as
\* soon as no Cookie holds it and not at all while one does; a construction
\* whose load step fails ends with the one magic_close of the instance it
\* opened; no native call is made on an instance that is not open, so none
\* after its magic_close and no second magic_close.
C1_CloseExactlyOnce ==
    /\ \A h \in Handles :
         closes[h] = IF h < nextHandle /\ ~(cookie # <<>> /\ Held = h) THEN 1 ELSE 0
    /\ \A i \in 1..Len(lastOp.calls) : lastOp.calls[i].live
    /\ (lastOp.op \in News /\ lastOp.env.openOk /\ ~lastOp.ret.ok)
         => /\ lastOp.calls[Len(lastOp.calls)].fn = "magic_close"
            /\ lastOp.calls[Len(lastOp.calls)].h = nextHandle - 1
            /\ CloseCount(lastOp.calls, nextHandle - 1) = 1
    /\ lastOp.op = "drop"
         => /\ Len(lastOp.calls) = 1
            /\ lastOp.calls[1].fn = "magic_close"

\* a second construction failed locally on a nul byte after the first
\* instance was closed: both instances are closed once
C1_Witness ==
    /\ lastOp.op = "new" /\ lastOp.env.openOk /\ ~lastOp.ret.ok
    /\ Len(lastOp.calls) = 2
    /\ closes[1] = 1 /\ closes[2] = 1

\* C2: an operating system failure during a file() or buffer() query is
\* returned as Err whatever flags were given at construction or set later,
\* and every live handle has the ERROR bit in force.
C2_OsFailureIsErr ==
    /\ (lastOp.op \in Queries /\ lastOp.calls # <<>> /\ lastOp.env.outcome = "oserr")
         => ~lastOp.ret.ok
    /\ cookie # <<>> => contains(engine[Held].flags, ERROR)

\* C3: magic_open receives F with bit 0x200 set and all other bits as in F;
\* the load step runs under these flags, and so does every query until the
\* first set_flags call.
C3_OpenFlags ==
    /\ lastOp.op \in News
         => /\ lastOp.calls[1].fn = "magic_open"
            /\ WithError(lastOp.arg[1], lastOp.calls[1].arg[1])
            /\ \A i \in 2..Len(lastOp.calls) :
                 WithError(lastOp.arg[1], lastOp.calls[i].flags)
    /\ (cookie # <<>> /\ ctor # -1) => WithError(ctor, engine[Held].flags)
    /\ (lastOp.op \in Queries /\ ctor # -1)
         => \A i \in 1..Len(lastOp.calls) : WithError(ctor, lastOp.calls[i].flags)

\* a query ran on a handle constructed with MIME_TYPE and never reflagged
C3_Witness ==
    /\ lastOp.op = "file" /\ lastOp.calls # <<>>
    /\ ctor = MIME_TYPE

\* the result text of a match under the flags F of FlagInputs
TextFor(F) ==
    IF F = MIME_TYPE THEN <<105, 109, 97, 103, 101, 47, 112, 110, 103>>
    ELSE IF F = MIME
    THEN <<105, 109, 97, 103, 101, 47, 112, 110, 103, 59, 32, 99, 104, 97,
           114, 115, 101, 116, 61, 98, 105, 110, 97, 114, 121>>
    ELSE <<80, 78, 71>>

\* C4: set_flags(F) hands exactly F to the engine; once it has returned true
\* the flags in force are exactly F until the next set_flags, and a query
\* that matches is answered as F alone asks: the description, the MIME type
\* under MIME_TYPE, type and encoding under MIME_TYPE | MIME_ENCODING.
C4_SetFlagsOverwrites ==
    /\ lastOp.op = "set_flags"
         => /\ Len(lastOp.calls) = 1
            /\ lastOp.calls[1].fn = "magic_setflags"
            /\ lastOp.calls[1].arg = <<lastOp.arg[1]>>
            /\ lastOp.ret.ok => engine[Held].flags = lastOp.arg[1]
    /\ (cookie # <<>> /\ lastSet # -1) => engine[Held].flags = lastSet
    /\ (lastOp.op \in Queries /\ lastSet # -1 /\ lastOp.calls # <<>>
           /\ lastOp.env.outcome = "match")
         => /\ lastOp.ret.ok
            /\ lastOp.ret.val.data = TextFor(lastSet)

\* a query answered with type and encoding after set_flags(MIME)
C4_Witness ==
    /\ lastOp.op = "file" /\ lastOp.ret.ok
    /\ lastSet = MIME
    /\ lastOp.env.outcome = "match"

\* C5: MIME is 0x410; each composite has exactly the bits of its documented
\* constituents, so NO_CHECK_BUILTIN lacks NO_CHECK_SOFT; a flags value
\* that contains a composite contains every constituent of it.
C5_Composites ==
    /\ MIME = 1040
    /\ BitsOf(MIME) = BitsOf(MIME_TYPE) \cup BitsOf(MIME_ENCODING)
    /\ BitsOf(NODESC) = BitsOf(EXTENSION) \cup BitsOf(MIME) \cup BitsOf(APPLE)
    /\ BitsOf(NO_CHECK_BUILTIN) =
         UNION {BitsOf(f) : f \in {NO_CHECK_COMPRESS, NO_CHECK_TAR, NO_CHECK_APPTYPE,
                                   NO_CHECK_ELF, NO_CHECK_TEXT, NO_CHECK_CDF,
                                   NO_CHECK_TOKENS, NO_CHECK_ENCODING, NO_CHECK_JSON}}
    /\ ~contains(NO_CHECK_BUILTIN, NO_CHECK_SOFT)
    /\ contains(fv, MIME)
         => contains(fv, MIME_TYPE) /\ contains(fv, MIME_ENCODING)
    /\ contains(fv, NODESC)
         => \A f \in {EXTENSION, MIME, APPLE, MIME_TYPE, MIME_ENCODING} : contains(fv, f)
    /\ contains(fv, NO_CHECK_BUILTIN)
         => \A f \in {NO_CHECK_COMPRESS, NO_CHECK_TAR, NO_CHECK_APPTYPE,
                      NO_CHECK_ELF, NO_CHECK_TEXT, NO_CHECK_CDF,
                      NO_CHECK_TOKENS, NO_CHECK_ENCODING, NO_CHECK_JSON} : contains(fv, f)

\* a flags value built from NODESC and NO_CHECK_BUILTIN without NO_CHECK_SOFT
C5_Witness ==
    /\ contains(fv, NODESC)
    /\ contains(fv, NO_CHECK_BUILTIN)
    /\ ~contains(fv, NO_CHECK_SOFT)

\* C6: a query whose native call returned null is Err and one that returned
\* a result is Ok; check, compile, list and the load step are Ok on status 0
\* and Err otherwise; the description of such an Err is the engine's error
\* text, decoded, when it has one and "unknown error" when it has none.
C6_FailureIsErr ==
    /\ (lastOp.op \in Queries /\ lastOp.calls # <<>>)
         => /\ lastOp.ret.ok <=> engine[Held].res # NULL
            /\ ~lastOp.ret.ok => lastOp.ret.desc.data = FailureDesc(engine[Held].err)
    /\ (lastOp.op \in DbOps /\ lastOp.calls # <<>>)
         => /\ lastOp.ret.ok <=> lastOp.env.rv = 0
            /\ ~lastOp.ret.ok => lastOp.ret.desc.data = FailureDesc(lastOp.env.et)
    /\ (lastOp.op \in News /\ Len(lastOp.calls) >= 2
           /\ lastOp.calls[2].fn \in {"magic_load", "magic_load_buffers"})
         => /\ lastOp.ret.ok <=> lastOp.env.rv = 0
            /\ ~lastOp.ret.ok => lastOp.ret.desc.data = FailureDesc(lastOp.env.et)

\* a query failed and the engine had no error text
C6_Witness ==
    /\ lastOp.op = "buffer" /\ ~lastOp.ret.ok
    /\ lastOp.env.outcome = "failquiet"
    /\ lastOp.ret.desc.data = FailureDesc(NULL)

\* the native calls that receive a caller string
StringCalls ==
    {"magic_file", "magic_check", "magic_compile", "magic_list", "magic_load"}

\* d starts with "NulError("
IsNulError(d) ==
    /\ Len(d) > 9
    /\ SubSeq(d, 1, 9) = <<78, 117, 108, 69, 114, 114, 111, 114, 40>>

\* C7: a path or a database name with an embedded nul makes file, check,
\* compile, list and the load step of new return Err with a NulError
\* description without making the native call that takes the string; what
\* such a call receives holds no nul and, for file, is the whole path.
C7_NulRejected ==
    /\ (lastOp.op = "file" /\ HasNul(lastOp.arg[1]))
         => /\ ~lastOp.ret.ok
            /\ IsNulError(lastOp.ret.desc.data)
            /\ lastOp.calls = <<>>
    /\ (lastOp.op \in DbOps /\ AnyNul(lastOp.arg[1]))
         => /\ ~lastOp.ret.ok
            /\ IsNulError(lastOp.ret.desc.data)
            /\ lastOp.calls = <<>>
    /\ (lastOp.op = "new" /\ lastOp.env.openOk /\ AnyNul(lastOp.arg[2]))
         => /\ ~lastOp.ret.ok
            /\ IsNulError(lastOp.ret.desc.data)
            /\ \A i \in 1..Len(lastOp.calls) : lastOp.calls[i].fn \notin StringCalls
    /\ \A i \in 1..Len(lastOp.calls) :
         (lastOp.calls[i].fn \in StringCalls /\ lastOp.calls[i].arg # NULL)
           => /\ ~HasNul(lastOp.calls[i].arg[1])
              /\ lastOp.op = "file" => lastOp.calls[i].arg[1] = lastOp.arg[1]

\* a construction whose second database name holds a nul
C7_Witness ==
    /\ lastOp.op = "new" /\ lastOp.env.openOk
    /\ Len(lastOp.arg[2]) = 2
    /\ ~HasNul(lastOp.arg[2][1]) /\ HasNul(lastOp.arg[2][2])

\* C8: a step never changes the characters of a result string the caller
\* holds before and after it.
C8_ResultsAreOwned ==
    [][\A i \in 1..Len(results) :
         i <= Len(results') => StrVal(results[i])' = StrVal(results[i])]_vars

\* the caller holds a result that differs from what the engine's result
\* buffer holds now
C8_Witness ==
    /\ results # <<>> /\ cookie # <<>>
    /\ engine[Held].res # NULL
    /\ StrVal(results[1]) # to_string_lossy(engine[Held].res[1])

\* C9: the caller's Cookie holds an open instance, the one its construction
\* allocated; when magic_open returns null the constructor returns Err with
\* the error text and code, magic_open is its only native call and no
\* Cookie and no instance exist afterwards; an Ok is the Cookie now held.
C9_HandleNonNull ==
    /\ cookie # <<>>
         => /\ Held \in Handles
            /\ Held = nextHandle - 1
            /\ engine[Held].st = "open"
    /\ (lastOp.op \in News /\ ~lastOp.env.openOk)
         => /\ ~lastOp.ret.ok
            /\ lastOp.ret.desc.data =
                 <<67, 97, 110, 110, 111, 116, 32, 97, 108, 108, 111, 99, 97, 116,
                   101, 32, 109, 101, 109, 111, 114, 121, 32, 40, 49, 50, 41>>
            /\ Len(lastOp.calls) = 1
            /\ lastOp.calls[1].fn = "magic_open"
            /\ cookie = <<>>
            /\ \A h \in Handles : h >= nextHandle => engine[h].st = "none"
    /\ (lastOp.op \in News /\ lastOp.ret.ok)
         => /\ lastOp.env.openOk
            /\ cookie = <<lastOp.ret.val>>

\* magic_open returned null for the second construction
C9_Witness ==
    /\ lastOp.op = "new_from_buffers" /\ ~lastOp.env.openOk
    /\ nextHandle = 2

RECURSIVE ColonJoined(_)
\* the names of a non-empty list from the first on, ':' before each but the
\* first
ColonJoined(l) ==
    IF Len(l) = 1 THEN l[1] ELSE l[1] \o <<58>> \o ColonJoined(Tail(l))

\* the native call of an operation that names databases, and its list
NativeOf(op) ==
    IF op = "check" THEN "magic_check"
    ELSE IF op = "compile" THEN "magic_compile"
    ELSE IF op = "list" THEN "magic_list"
    ELSE "magic_load"

DbList == IF lastOp.op = "new" THEN lastOp.arg[2] ELSE lastOp.arg[1]

\* C10: check, compile, list and the load step of new, given a list without
\* nul bytes, make their native call once, with a null source for the empty
\* list and otherwise with the names in order joined by ':' and no
\* separator at either end.
C10_SameSourceArgument ==
    (/\ lastOp.op \in DbOps \cup {"new"}
     /\ lastOp.op = "new" => lastOp.env.openOk
     /\ ~AnyNul(DbList))
      => /\ Cardinality({i \in 1..Len(lastOp.calls) :
                            lastOp.calls[i].fn = NativeOf(lastOp.op)}) = 1
         /\ \A i \in 1..Len(lastOp.calls) :
              lastOp.calls[i].fn = NativeOf(lastOp.op)
                => lastOp.calls[i].arg =
                     IF DbList = <<>> THEN NULL ELSE <<ColonJoined(DbList)>>

\* a construction without databases reached the engine with a null source
\* and succeeded
C10_Witness ==
    /\ lastOp.op = "new" /\ lastOp.ret.ok
    /\ lastOp.arg[2] = <<>>
    /\ lastOp.calls[2].fn = "magic_load" /\ lastOp.calls[2].arg = NULL

====
